---- MODULE Spec2Model ----
(***************************************************************************)
(* Model of custom_components/omnilogic_local/climate.py: the climate      *)
(* entity of a pool heater (OmniLogicClimateEntity) and the platform setup *)
(* (async_setup_entry).                                                    *)
(*                                                                         *)
(* Spec       : the command coroutines of one entity, interleaved at their *)
(*              await points, together with the coordinator's poll.        *)
(* SpecSetup  : platform setup over a device tree and the extended         *)
(*              attributes of the created entities.                        *)
(***************************************************************************)
EXTENDS Integers, Sequences, FiniteSets, TLC

VARIABLES
    telemetry,      \* coordinator.data[id].telemetry, by system id
    units,          \* get_system_config().units
    pc,             \* position of each command coroutine
    cmd,            \* the command each coroutine was dispatched with
    api_calls,      \* calls received by coordinator.omni_api, in order
    self_hvac_mode, \* the entity attribute self._hvac_mode
    ha_state,       \* the state last written to the host by async_write_ha_state
    writes,         \* number of async_write_ha_state calls
    errors,         \* number of _LOGGER.error records
    event,          \* the last step taken: <<kind, task>>
    data,           \* coordinator.data: the device tree walked by setup
    entities,       \* the entities handed to async_add_entities
    setup_pc,       \* position of async_setup_entry
    attrs           \* the last extra_state_attributes read, with its entity

vars == <<telemetry, units, pc, cmd, api_calls, self_hvac_mode, ha_state,
          writes, errors, event, data, entities, setup_pc, attrs>>

cmdVars == <<telemetry, units, pc, cmd, api_calls, self_hvac_mode, ha_state,
             writes, errors, event>>

setupVars == <<data, entities, setup_pc, attrs>>

-----------------------------------------------------------------------------
(* Bounds *)

MaxTasks == 2

MaxDevices == 3

Tasks == 1..MaxTasks

-----------------------------------------------------------------------------
(* Python values held by the telemetry "enabled" field *)

PyBool(b) == [type |-> "bool", text |-> IF b THEN "True" ELSE "False"]

PyStr(s) == [type |-> "str", text |-> s]

\* Python truth value testing: False and the empty string are false,
\* True and every non-empty string are true.
Truthy(v) == IF v.type = "bool" THEN v.text = "True" ELSE v.text # ""

-----------------------------------------------------------------------------
(* Enumerations of the host *)

HEAT == "heat"

OFF == "off"

HEATING == "heating"

ACTION_OFF == "off"

STATE_ON == "on"

STATE_OFF == "off"

CELSIUS == "C"

FAHRENHEIT == "F"

\* requests the host may dispatch to async_set_hvac_mode
HvacModes == {"heat", "off", "cool", "auto"}

-----------------------------------------------------------------------------
(* The entity under command: a virtual heater of the pool *)

BowIds == {1, 2}

system_id == 3

bow_id == 1

\* msp_config.min_temp / max_temp of the heater
min_temp == 65

max_temp == 104

\* raw water temperature that means "no reading"
NoReading == -1

Units == {"Metric", "Standard"}

\* temperatures are given in tenths of a degree: 217 is 21.7
Temperatures == {-15, 217, 1048, 1500}

PollSetPoints == {80}

\* raw water temperatures of the pool and of the spa, as <<pool, spa>>
WaterTemps == {<<-1, 99>>, <<78, -1>>}

-----------------------------------------------------------------------------
(* Read path *)

\* OmniLogicEntity.get_telemetry_by_systemid: the telemetry record of a device
get_telemetry_by_systemid(id) == telemetry[id]

temperature_unit == IF units = "Metric" THEN CELSIUS ELSE FAHRENHEIT

target_temperature == telemetry[system_id].current_set_point

\* mutant: the reading is taken from the other body of water
current_temperature_other ==
    LET current_temp ==
            get_telemetry_by_systemid(CHOOSE b \in BowIds : b # bow_id).water_temp
    IN  IF current_temp # NoReading THEN <<current_temp>> ELSE <<>>

\* an absent value (None) is the empty sequence, a present one <<value>>
current_temperature ==
    LET current_temp == telemetry[bow_id].water_temp
    IN  IF current_temp # NoReading THEN <<current_temp>> ELSE <<>>

\* mutant: the mode is taken from the _hvac_mode attribute, not the telemetry
hvac_mode_attr == IF self_hvac_mode = HEAT THEN HEAT ELSE OFF

hvac_mode == IF Truthy(telemetry[system_id].enabled) THEN HEAT ELSE OFF

hvac_action == IF hvac_mode = HEAT THEN HEATING ELSE ACTION_OFF

current_operation ==
    IF Truthy(telemetry[system_id].enabled) THEN STATE_ON ELSE STATE_OFF

-----------------------------------------------------------------------------
(* Helpers of the write path *)

\* mutant: the number is rounded to the nearest integer
Round(tenths) ==
    IF tenths >= 0 THEN (tenths + 5) \div 10 ELSE -((5 - tenths) \div 10)

\* int(x) on a number given in tenths: the fraction is dropped toward zero
Trunc(tenths) ==
    IF tenths >= 0 THEN tenths \div 10 ELSE -((-tenths) \div 10)

\* OmniLogicEntity.set_telemetry: overwrite the given fields of the entity's
\* cached telemetry record, leaving the other fields as they are
set_telemetry(new_telemetry) ==
    [telemetry EXCEPT ![system_id] =
        [f \in DOMAIN @ |->
            IF f \in DOMAIN new_telemetry THEN new_telemetry[f] ELSE @[f]]]

\* the state the host renders from the entity's properties
RenderedState(mode, action, operation, target) ==
    [hvac_mode |-> mode, hvac_action |-> action,
     current_operation |-> operation, temperature |-> target]

\* the telemetry of the device tree as a poll delivers it: the heater's
\* record and the record of each body of water
Polled(b, sp, w) ==
    [i \in BowIds \cup {system_id} |->
        IF i = system_id
        THEN [enabled |-> PyBool(b), current_set_point |-> sp]
        ELSE [water_temp |-> IF i = bow_id THEN w[1] ELSE w[2]]]

\* the coroutines are numbered in the order the host dispatches them
Dispatchable(t) ==
    /\ pc[t] = "idle"
    /\ \A u \in Tasks : u < t => pc[u] # "idle"

-----------------------------------------------------------------------------
(* Initial state: the coordinator has polled once, no command is running *)

IdleSetup ==
    /\ data = <<>>
    /\ entities = <<>>
    /\ setup_pc = "idle"
    /\ attrs = <<>>

Init ==
    /\ \E b \in BOOLEAN, sp \in PollSetPoints, w \in WaterTemps :
          telemetry = Polled(b, sp, w)
    /\ units \in Units
    /\ pc = [t \in Tasks |-> "idle"]
    /\ cmd = [t \in Tasks |-> [op |-> "none"]]
    /\ api_calls = <<>>
    /\ self_hvac_mode = "unset"
    /\ ha_state = RenderedState(hvac_mode, hvac_action, current_operation,
                                target_temperature)
    /\ writes = 0
    /\ errors = 0
    /\ event = <<"Init", 0>>
    /\ IdleSetup

-----------------------------------------------------------------------------
(* async_set_temperature *)

\* lines 121-126: the arguments are evaluated and the call is awaited
SetTemperatureCall(t, temp) ==
    /\ Dispatchable(t)
    /\ pc' = [pc EXCEPT ![t] = "awaiting"]
    /\ cmd' = [cmd EXCEPT ![t] = [op |-> "set_temperature", temperature |-> temp]]
    /\ api_calls' = Append(api_calls,
          [op |-> "set_heater", bow_id |-> bow_id, system_id |-> system_id,
           temperature |-> Trunc(temp), unit |-> temperature_unit])
    /\ event' = <<"SetTemperatureCall", t>>
    /\ UNCHANGED <<telemetry, units, self_hvac_mode, ha_state, writes, errors>>
    /\ UNCHANGED setupVars

\* line 127: the call returned, the cached set-point is overwritten
SetTemperatureDone(t) ==
    /\ pc[t] = "awaiting"
    /\ cmd[t].op = "set_temperature"
    /\ telemetry' = set_telemetry([current_set_point |-> Trunc(cmd[t].temperature)])
    /\ pc' = [pc EXCEPT ![t] = "done"]
    /\ event' = <<"SetTemperatureDone", t>>
    /\ UNCHANGED <<units, cmd, api_calls, self_hvac_mode, ha_state, writes, errors>>
    /\ UNCHANGED setupVars

\* the awaited call raised: nothing catches it, line 127 is not reached
SetTemperatureRaise(t) ==
    /\ pc[t] = "awaiting"
    /\ cmd[t].op = "set_temperature"
    /\ pc' = [pc EXCEPT ![t] = "raised"]
    /\ event' = <<"SetTemperatureRaise", t>>
    /\ UNCHANGED <<telemetry, units, cmd, api_calls, self_hvac_mode, ha_state,
                   writes, errors>>
    /\ UNCHANGED setupVars

-----------------------------------------------------------------------------
(* async_set_hvac_mode *)

\* mutant: the cached flag is overwritten before the call is awaited
SetHvacModeCallWritesFirst(t, mode) ==
    /\ Dispatchable(t)
    /\ mode \in {HEAT, OFF}
    /\ self_hvac_mode' = mode
    /\ telemetry' = set_telemetry(
          [enabled |-> IF mode = HEAT THEN PyStr("yes") ELSE PyStr("no")])
    /\ pc' = [pc EXCEPT ![t] = "awaiting"]
    /\ cmd' = [cmd EXCEPT ![t] = [op |-> "set_hvac_mode", hvac_mode |-> mode]]
    /\ api_calls' = Append(api_calls,
          [op |-> "set_heater_enable", bow_id |-> bow_id, system_id |-> system_id,
           enabled |-> (mode = HEAT)])
    /\ event' = <<"SetHvacModeCall", t>>
    /\ UNCHANGED <<units, ha_state, writes, errors>>
    /\ UNCHANGED setupVars

\* lines 131-133 and 135-137: _hvac_mode is set and the call is awaited
SetHvacModeCall(t, mode) ==
    /\ Dispatchable(t)
    /\ mode \in {HEAT, OFF}
    /\ self_hvac_mode' = mode
    /\ pc' = [pc EXCEPT ![t] = "awaiting"]
    /\ cmd' = [cmd EXCEPT ![t] = [op |-> "set_hvac_mode", hvac_mode |-> mode]]
    /\ api_calls' = Append(api_calls,
          [op |-> "set_heater_enable", bow_id |-> bow_id, system_id |-> system_id,
           enabled |-> (mode = HEAT)])
    /\ event' = <<"SetHvacModeCall", t>>
    /\ UNCHANGED <<telemetry, units, ha_state, writes, errors>>
    /\ UNCHANGED setupVars

\* lines 134 / 138 and 143: the call returned, the cached enabled flag is
\* overwritten and the host is asked to write the entity's state
SetHvacModeDone(t) ==
    /\ pc[t] = "awaiting"
    /\ cmd[t].op = "set_hvac_mode"
    /\ telemetry' = set_telemetry(
          [enabled |-> IF cmd[t].hvac_mode = HEAT THEN PyStr("yes") ELSE PyStr("no")])
    /\ ha_state' = RenderedState(hvac_mode', hvac_action', current_operation',
                                 target_temperature')
    /\ writes' = writes + 1
    /\ pc' = [pc EXCEPT ![t] = "done"]
    /\ event' = <<"SetHvacModeDone", t>>
    /\ UNCHANGED <<units, cmd, api_calls, self_hvac_mode, errors>>
    /\ UNCHANGED setupVars

\* the awaited call raised: lines 134 / 138 and 143 are not reached
SetHvacModeRaise(t) ==
    /\ pc[t] = "awaiting"
    /\ cmd[t].op = "set_hvac_mode"
    /\ pc' = [pc EXCEPT ![t] = "raised"]
    /\ event' = <<"SetHvacModeRaise", t>>
    /\ UNCHANGED <<telemetry, units, cmd, api_calls, self_hvac_mode, ha_state,
                   writes, errors>>
    /\ UNCHANGED setupVars

\* mutant: the else branch does not return and reaches async_write_ha_state
SetHvacModeUnrecognizedFallsThrough(t, mode) ==
    /\ Dispatchable(t)
    /\ mode \notin {HEAT, OFF}
    /\ errors' = errors + 1
    /\ ha_state' = RenderedState(hvac_mode, hvac_action, current_operation,
                                 target_temperature)
    /\ writes' = writes + 1
    /\ pc' = [pc EXCEPT ![t] = "done"]
    /\ cmd' = [cmd EXCEPT ![t] = [op |-> "set_hvac_mode", hvac_mode |-> mode]]
    /\ event' = <<"SetHvacModeUnrecognized", t>>
    /\ UNCHANGED <<telemetry, units, api_calls, self_hvac_mode>>
    /\ UNCHANGED setupVars

\* lines 139-141: an unrecognized mode is logged and the handler returns
SetHvacModeUnrecognized(t, mode) ==
    /\ Dispatchable(t)
    /\ mode \notin {HEAT, OFF}
    /\ errors' = errors + 1
    /\ pc' = [pc EXCEPT ![t] = "done"]
    /\ cmd' = [cmd EXCEPT ![t] = [op |-> "set_hvac_mode", hvac_mode |-> mode]]
    /\ event' = <<"SetHvacModeUnrecognized", t>>
    /\ UNCHANGED <<telemetry, units, api_calls, self_hvac_mode, ha_state, writes>>
    /\ UNCHANGED setupVars

-----------------------------------------------------------------------------
(* The coordinator's poll replaces the telemetry with the device's values *)

Poll ==
    /\ \E b \in BOOLEAN, sp \in PollSetPoints, w \in WaterTemps :
          telemetry' = Polled(b, sp, w)
    /\ event' = <<"Poll", 0>>
    /\ UNCHANGED <<units, pc, cmd, api_calls, self_hvac_mode, ha_state, writes,
                   errors>>
    /\ UNCHANGED setupVars

-----------------------------------------------------------------------------

Commands ==
    \/ \E t \in Tasks, temp \in Temperatures : SetTemperatureCall(t, temp)
    \/ \E t \in Tasks : SetTemperatureDone(t)
    \/ \E t \in Tasks : SetTemperatureRaise(t)
    \/ \E t \in Tasks, mode \in HvacModes : SetHvacModeCall(t, mode)
    \/ \E t \in Tasks : SetHvacModeDone(t)
    \/ \E t \in Tasks : SetHvacModeRaise(t)
    \/ \E t \in Tasks, mode \in HvacModes : SetHvacModeUnrecognized(t, mode)

Next == Commands \/ Poll

Spec == Init /\ [][Next]_vars

\* the commands alone, with no poll between them
NextCommands == Commands

SpecCommands == Init /\ [][NextCommands]_vars

-----------------------------------------------------------------------------
(* Platform setup and the extended attributes *)

VIRT_HEATER == "VirtualHeater"

HEATER_EQUIP == "Heater"

\* names a heating element may be configured with
Names == {"Gas", "gas", "Solar"}

\* the records a device tree is made of: virtual heaters and heating elements
\* of either body of water, and a device of another platform
DeviceRecords ==
    {[omni_type |-> VIRT_HEATER, hass_type |-> "climate", bow_id |-> b,
      name |-> "Heater", solar_set_point |-> 90] : b \in BowIds}
    \cup
    {[omni_type |-> HEATER_EQUIP, hass_type |-> "climate", bow_id |-> b,
      name |-> n, enabled |-> "yes", state |-> "Off", temp |-> 75] :
         b \in BowIds, n \in Names}
    \cup
    {[omni_type |-> "Pump", hass_type |-> "switch", bow_id |-> 1, name |-> "Pump"]}

\* device trees: the system ids are 1..n, in the order of the tree
Trees == UNION {[1..n -> DeviceRecords] : n \in 0..MaxDevices}

\* str.lower() on the names of the model
Lower(name) ==
    CASE name = "Gas" -> "gas"
      [] name = "gas" -> "gas"
      [] name = "Solar" -> "solar"
      [] OTHER -> name

\* utils.get_entities_of_hass_type: the system ids of the tree whose record
\* belongs to the given platform, in the order of the tree
get_entities_of_hass_type(tree, hass_type) ==
    SelectSeq([i \in 1..Len(tree) |-> i], LAMBDA i : tree[i].hass_type = hass_type)

\* line 39
virtual_heater(tree, all_heaters) ==
    SelectSeq(all_heaters, LAMBDA i : tree[i].omni_type = VIRT_HEATER)

\* mutant: the heating elements are not told from the virtual heaters
heater_equipment_ids_unfiltered(tree, all_heaters) == all_heaters

\* line 40
heater_equipment_ids(tree, all_heaters) ==
    SelectSeq(all_heaters, LAMBDA i : tree[i].omni_type = HEATER_EQUIP)

\* lines 42-55: one entity per virtual heater, each given the one list
NewEntities(tree) ==
    LET all_heaters == get_entities_of_hass_type(tree, "climate")
        vh == virtual_heater(tree, all_heaters)
        ids == heater_equipment_ids(tree, all_heaters)
    IN  [k \in 1..Len(vh) |-> [context |-> vh[k], heater_equipment_ids |-> ids]]

\* dict | dict: the right operand wins on a key both hold
Merge(a, b) ==
    [k \in DOMAIN a \cup DOMAIN b |-> IF k \in DOMAIN b THEN b[k] ELSE a[k]]

\* OmniLogicEntity.extra_state_attributes, the attributes of the base entity
base_extra_state_attributes == <<>>

\* lines 150-157: the group of one heating element
EquipmentAttributes(tree, id) ==
    LET heater_equipment == tree[id]
        prefix == "omni_heater_" \o Lower(heater_equipment.name)
    IN  (prefix \o "_enabled" :> heater_equipment.enabled)
        @@ (prefix \o "_system_id" :> id)
        @@ (prefix \o "_bow_id" :> heater_equipment.bow_id)
        @@ (prefix \o "_state" :> heater_equipment.state)
        @@ (prefix \o "_sensor_temp" :> heater_equipment.temp)

\* lines 148-157: the loop over heater_equipment_ids, from element k on
RECURSIVE AddEquipment(_, _, _, _)
AddEquipment(tree, ids, k, acc) ==
    IF k > Len(ids) THEN acc
    ELSE AddEquipment(tree, ids, k + 1,
                      Merge(acc, EquipmentAttributes(tree, ids[k])))

extra_state_attributes(tree, entity) ==
    AddEquipment(tree, entity.heater_equipment_ids, 1,
        Merge(base_extra_state_attributes,
              ("solar_set_point" :> tree[entity.context].solar_set_point)))

\* the command side at rest
IdleCommands ==
    /\ telemetry = Polled(FALSE, 80, <<78, -1>>)
    /\ units = "Standard"
    /\ pc = [t \in Tasks |-> "idle"]
    /\ cmd = [t \in Tasks |-> [op |-> "none"]]
    /\ api_calls = <<>>
    /\ self_hvac_mode = "unset"
    /\ ha_state = RenderedState(hvac_mode, hvac_action, current_operation,
                                target_temperature)
    /\ writes = 0
    /\ errors = 0
    /\ event = <<"Init", 0>>

InitSetup ==
    /\ data \in Trees
    /\ entities = <<>>
    /\ setup_pc = "idle"
    /\ attrs = <<>>
    /\ IdleCommands

\* async_setup_entry
SetupEntry ==
    /\ setup_pc = "idle"
    /\ entities' = NewEntities(data)
    /\ setup_pc' = "done"
    /\ UNCHANGED <<data, attrs>>
    /\ UNCHANGED cmdVars

\* the host reads extra_state_attributes of entity k
ReadAttributes(k) ==
    /\ setup_pc = "done"
    /\ k \in 1..Len(entities)
    /\ attrs' = <<[entity |-> entities[k],
                   attributes |-> extra_state_attributes(data, entities[k])]>>
    /\ UNCHANGED <<data, entities, setup_pc>>
    /\ UNCHANGED cmdVars

NextSetup ==
    \/ SetupEntry
    \/ \E k \in 1..MaxDevices : ReadAttributes(k)

SpecSetup == InitSetup /\ [][NextSetup]_vars

-----------------------------------------------------------------------------
(* Steps of a coroutine, as seen in a pair of states *)

Dispatched(t) == pc[t] = "idle" /\ pc'[t] # "idle"

Returned(t) == pc[t] = "awaiting" /\ pc'[t] = "done"

Failed(t) == pc[t] = "awaiting" /\ pc'[t] \notin {"awaiting", "done"}

\* v is x (given in tenths) with its fraction dropped toward zero
IsTruncOf(v, x) ==
    /\ x >= 0 => (v >= 0 /\ 10 * v <= x /\ x < 10 * v + 10)
    /\ x < 0 => (v <= 0 /\ 10 * v >= x /\ x > 10 * v - 10)

HeaterCalls == SelectSeq(api_calls, LAMBDA c : c.op = "set_heater")

EnableCalls == SelectSeq(api_calls, LAMBDA c : c.op = "set_heater_enable")

-----------------------------------------------------------------------------
(* Claims *)

\* C1: when set_mode("heat") returns, the operating mode read in the state it
\* leaves is HEAT, and when set_mode("off") returns it is OFF, whatever the
\* mode was before.
C1_ReadAfterSetMode ==
    [][\A t \in Tasks :
          (Returned(t) /\ cmd[t].op = "set_hvac_mode")
              => hvac_mode' = cmd[t].hvac_mode]_vars

C3_UnrecognizedModeIsNoOp ==
    [][\A t \in Tasks :
          (/\ Dispatched(t)
           /\ cmd'[t].op = "set_hvac_mode"
           /\ cmd'[t].hvac_mode \notin {"heat", "off"})
              => /\ api_calls' = api_calls
                 /\ telemetry' = telemetry
                 /\ ha_state' = ha_state
                 /\ writes' = writes
                 /\ errors' = errors + 1
                 /\ pc'[t] = "done"]_vars

C3_Witness ==
    /\ event = <<"SetHvacModeUnrecognized", 1>>
    /\ cmd[1].hvac_mode = "cool"
    /\ errors = 1
    /\ api_calls = <<>>

\* C4: dispatching a command leaves the cached telemetry as it is while the
\* call is in flight; the heater's cached record changes only in a step where
\* a call returns or the coordinator polls; and when the call fails the
\* coroutine ends raised, with the cached set-point and enabled flag kept and
\* no re-render asked.
C4_CacheWrittenOnlyAfterSuccess ==
    [][/\ \A t \in Tasks :
             (Dispatched(t) /\ pc'[t] = "awaiting")
                 => (telemetry' = telemetry /\ writes' = writes)
       /\ \A t \in Tasks :
             Failed(t)
                 => /\ pc'[t] = "raised"
                    /\ telemetry' = telemetry
                    /\ ha_state' = ha_state
                    /\ writes' = writes
       /\ (telemetry'[system_id] # telemetry[system_id] \/ writes' # writes)
             => (event'[1] = "Poll" \/ \E t \in Tasks : Returned(t))]_vars

C4_Witness ==
    /\ pc[1] = "raised"
    /\ cmd[1].op = "set_hvac_mode"
    /\ cmd[1].hvac_mode = OFF
    /\ event = <<"SetHvacModeRaise", 1>>
    /\ telemetry[system_id].enabled = PyBool(TRUE)
    /\ writes = 0

\* C5: set_target_temperature(t) sends the external API the entity's body of
\* water id and system id, the current temperature unit and t with its
\* fraction dropped toward zero (21.7 gives 21), and when the call returns the
\* cached set-point is that same integer, whether or not it lies between the
\* minimum and the maximum.
C5_TruncatedTemperatureSentAndCached ==
    [][\A t \in Tasks :
          /\ (Dispatched(t) /\ cmd'[t].op = "set_temperature")
                => LET c == api_calls'[Len(api_calls')]
                   IN  /\ Len(api_calls') = Len(api_calls) + 1
                       /\ c.op = "set_heater"
                       /\ c.bow_id = 1
                       /\ c.system_id = 3
                       /\ c.unit = (IF units = "Metric" THEN "C" ELSE "F")
                       /\ IsTruncOf(c.temperature, cmd'[t].temperature)
                       /\ cmd'[t].temperature = 217 => c.temperature = 21
          /\ (Returned(t) /\ cmd[t].op = "set_temperature")
                => /\ IsTruncOf(telemetry'[system_id].current_set_point,
                                cmd[t].temperature)
                   /\ \E i \in 1..Len(api_calls) :
                         /\ api_calls[i].op = "set_heater"
                         /\ api_calls[i].temperature =
                               telemetry'[system_id].current_set_point]_vars

C5_Witness ==
    /\ event = <<"SetTemperatureDone", 1>>
    /\ cmd[1].temperature = 1500
    /\ target_temperature = 150
    /\ target_temperature > max_temp
    /\ api_calls[1].temperature = 150

\* C6: when a set_mode(heat) or set_mode(off) call returns, the host is asked
\* to re-render exactly once, and the state rendered then shows the new mode.
C6_RenderOnceWithNewMode ==
    [][\A t \in Tasks :
          (Returned(t) /\ cmd[t].op = "set_hvac_mode")
              => /\ writes' = writes + 1
                 /\ ha_state'.hvac_mode = cmd[t].hvac_mode]_vars

\* C7: the current temperature is absent exactly when the raw water
\* temperature of the heater's body of water is -1, and is that raw value
\* otherwise.
C7_CurrentTemperatureFromBodyOfWater ==
    LET raw == telemetry[1].water_temp
    IN  /\ (current_temperature = <<>>) <=> (raw = -1)
        /\ raw # -1 => current_temperature = <<raw>>

C7_Witness ==
    /\ telemetry[1].water_temp = -1
    /\ telemetry[2].water_temp = 99
    /\ current_temperature = <<>>
    /\ event[1] = "Poll"

\* C10: once every command has returned from its call to the external API,
\* with no poll in between, the cached set-point is the last temperature the
\* external API received and the cached enabled flag is the one written for
\* the last enable value the external API received.
C10_CacheAgreesWithLastCommand ==
    (Len(api_calls) = MaxTasks /\ \A t \in Tasks : pc[t] = "done")
        => /\ HeaterCalls # <<>>
                 => target_temperature = HeaterCalls[Len(HeaterCalls)].temperature
           /\ EnableCalls # <<>>
                 => telemetry[system_id].enabled =
                       (IF EnableCalls[Len(EnableCalls)].enabled
                        THEN PyStr("yes") ELSE PyStr("no"))

\* the keys of the group of the heating element named name
GroupKeys(name) ==
    {"omni_heater_" \o Lower(name) \o suffix :
        suffix \in {"_enabled", "_system_id", "_bow_id", "_state", "_sensor_temp"}}

\* C8: the extended attributes of an entity given n heating elements hold n
\* distinct groups of five keys, one per element and keyed by its lower-cased
\* name, next to the solar set-point key; with no element they hold the solar
\* set-point key alone.
C8_OneGroupPerElement ==
    \A r \in {attrs[j] : j \in 1..Len(attrs)} :
        LET ids == r.entity.heater_equipment_ids
            d == r.attributes
        IN  /\ Cardinality(DOMAIN d) = 1 + 5 * Len(ids)
            /\ "solar_set_point" \in DOMAIN d
            /\ \A k \in 1..Len(ids) :
                  /\ GroupKeys(data[ids[k]].name) \subseteq DOMAIN d
                  /\ d["omni_heater_" \o Lower(data[ids[k]].name) \o "_system_id"]
                        = ids[k]

\* C9: setup creates exactly one entity per virtual-heater record and none for
\* any other record, and every entity is given the list of the ids of all
\* heating-element records of the tree, each once, whatever body of water they
\* belong to.
C9_SetupPartitionsByType ==
    setup_pc = "done" =>
        LET vh == {i \in DOMAIN data : data[i].omni_type = "VirtualHeater"}
            he == {i \in DOMAIN data : data[i].omni_type = "Heater"}
        IN  /\ Len(entities) = Cardinality(vh)
            /\ {entities[k].context : k \in 1..Len(entities)} = vh
            /\ \A k \in 1..Len(entities) :
                  LET ids == entities[k].heater_equipment_ids
                  IN  /\ Len(ids) = Cardinality(he)
                      /\ {ids[j] : j \in 1..Len(ids)} = he

C9_Witness ==
    /\ setup_pc = "done"
    /\ Len(entities) = 2
    /\ data[entities[1].context].bow_id # data[entities[2].context].bow_id
    /\ Len(entities[1].heater_equipment_ids) = 1
    /\ entities[2].heater_equipment_ids = entities[1].heater_equipment_ids
====
